---- MODULE Spec2Model ----
(***************************************************************************)
(* StudyAI client: the shared StudyContext, the mobile home, videos, quiz,  *)
(* revision-quiz, profile, ask and mock-test screens and the web StudyUI,  *)
(* modelled as state machines over the handlers of the React components.   *)
(*                                                                         *)
(* Conventions                                                             *)
(*  - JavaScript arrays are sequences; JS index i is position i + 1.       *)
(*  - JS null / undefined of a string-valued slot is the string Null /     *)
(*    Undefined; a null apiData is the record NullData.                    *)
(*  - A Record<number, string> is a function over the question positions   *)
(*    whose value is Undefined where the object has no such key.           *)
(*  - React batches the setState calls of one handler run: one handler     *)
(*    run (up to its next await) is one action.                            *)
(***************************************************************************)
EXTENDS Integers, Sequences, FiniteSets, TLC

VARIABLES
    \* ---- StudyContext (StudyProvider) ----
    user,            \* user id or Null
    fileInfo,        \* picked file or Null
    uploading,       \* BOOLEAN
    apiData,         \* study material record or NullData
    videoResults,    \* sequence of videos
    videoLoading,    \* BOOLEAN
    videoError,      \* error string or Null
    \* ---- router and requests in flight ----
    nav,             \* the navigation stack, top is the last element
    uploadReqs,      \* outstanding upload() calls (closures awaiting fetch)
    revisionReqs,    \* outstanding loadRevisionQuiz() calls
    videoReqs,       \* outstanding fetchVideos() calls
    getUserPending,  \* the getUser() promise of the home screen is pending
    videoEffectDeps, \* dependency array of the videos effect at its last run
    nextMaterial,    \* how many materials the backend generated so far
    \* ---- QuizScreen local state ----
    answers,
    score,
    saving,
    syncError,
    lastSavedScore,
    syncReqs,        \* outstanding syncPerformance() calls
    \* ---- RevisionQuizScreen ----
    revisionIndices, \* as built by the last render
    rvRendered,      \* the screen rendered its question list
    rvAnswers,       \* answers of RevisionQuizScreen, keyed by original index
    rvScore,
    rvSaving,
    rvSyncError,
    rvLastSavedScore,
    rvSyncReqs,      \* outstanding submitPerformance() calls
    \* ---- what the last render of a screen shows ----
    highlighted,     \* QuizScreen: <<S>>, S the indices with the revision highlight
    keywordSections, \* VideosScreen
    otherVideos,     \* VideosScreen
    vidRendered,     \* the VideosScreen rendered its lists
    \* ---- ProfileScreen and the login screen ----
    logoutLoading,   \* loading of ProfileScreen
    logoutReqs,      \* outstanding logout() calls
    \* ---- AskScreen local state ----
    question,
    answer,
    history,
    askLoading,      \* loading of AskScreen
    askReqs,         \* outstanding ask() calls
    \* ---- MockTestScreen local state ----
    patternRows,     \* the count strings of the pattern rows
    mockLoading,     \* loading of MockTestScreen
    mockError,       \* error of MockTestScreen
    mockTest,
    mockReqs,        \* outstanding handleGenerate() calls
    \* ---- web StudyUI state ----
    view,
    file,
    webLoading,      \* loading of StudyUI
    material,
    studyReqs,       \* outstanding generateStudyMaterial() calls
    \* ---- observation ----
    lastEvent        \* the handler event that ran last and its outcome, while
                     \* nothing but the videos effect ran since; "none" otherwise

ctxVars == <<user, fileInfo, uploading, apiData, videoResults, videoLoading, videoError>>
routerVars == <<nav, uploadReqs, revisionReqs, videoReqs, getUserPending,
                videoEffectDeps, nextMaterial>>
homeVars == <<routerVars, lastEvent>>
quizVars == <<answers, score, saving, syncError, lastSavedScore, syncReqs>>
revLocalVars == <<rvAnswers, rvScore, rvSaving, rvSyncError, rvLastSavedScore, rvSyncReqs>>
renderVars == <<highlighted, keywordSections, otherVideos, vidRendered>>
revVars == <<revisionIndices, rvRendered, revLocalVars, renderVars>>
authVars == <<logoutLoading, logoutReqs>>
askVars == <<question, answer, history, askLoading, askReqs>>
mockVars == <<patternRows, mockLoading, mockError, mockTest, mockReqs>>
webVars == <<view, file, webLoading, material, studyReqs>>
\* the local state of the screens the mobile home, quiz and revision-quiz
\* handlers never touch
elsewhereVars == <<authVars, askVars, mockVars, webVars>>
vars == <<ctxVars, homeVars, quizVars, revVars, elsewhereVars>>

\* ------------------------------------------------------------------------
\* Bounds
\* ------------------------------------------------------------------------
MaxQuizLen == 2
MaxAttempts == 4
MaxRevQuizLen == 2
MaxMaterials == 2
MaxRevisionLoads == 1
MaxNavDepth == 3
MaxAsks == 2
MaxEditedRows == 2
MaxOrphans == 1

\* ------------------------------------------------------------------------
\* Values
\* ------------------------------------------------------------------------
Null == "null"
Undefined == "undefined"
NullData == [isNull |-> TRUE]
NoScore == -1
NoMaterialId == 0

Options == {"A", "B"}
Users == {"u1"}

\* the screen on top of the navigation stack
Top(stack) == stack[Len(stack)]

InSeq(x, seq) == \E k \in 1..Len(seq) : seq[k] = x

\* seq without its k-th element
RemoveAt(seq, k) == SubSeq(seq, 1, k - 1) \o SubSeq(seq, k + 1, Len(seq))

RECURSIVE SeqsUpTo(_, _)
SeqsUpTo(S, n) ==
    IF n = 0 THEN {<<>>}
    ELSE LET shorter == SeqsUpTo(S, n - 1)
         IN shorter \cup {Append(s, x) : s \in {t \in shorter : Len(t) = n - 1}, x \in S}

\* A question of the quiz as the backend returns it; the answer field may
\* be missing (the response is not validated).
Question == [options : {<<"A", "B">>}, answer : Options \cup {Undefined}]

\* A counter of the per-question stats: <<n>> for the number n, <<>> when the
\* field is missing or null.
Counter == {<<>>} \cup {<<n>> : n \in 0..MaxAttempts}

\* statsForQ: an entry of quiz_stats.per_question, NullData when the key is absent
StatsEntry == [attempts : Counter, correct : Counter]

\* The JSON of /api/study_material (ApiData of StudyContext plus the fields
\* the screens read through `as any`).
\* summary: the text, identified by the serial number of the generation;
\* material_id: the backend identifier, NoMaterialId when the field is missing;
\* per_question: quiz_stats.per_question, NullData at a position without entry.
Material(summary, mid, topics, quiz, perQuestion, revisionQuestions) ==
    [summary |-> summary, material_id |-> mid, key_topics |-> topics, quiz |-> quiz,
     per_question |-> perQuestion, revision_questions |-> revisionQuestions]

NoStats(quiz) == [i \in 1..Len(quiz) |-> NullData]

\* State of the parts of the app a specification does not exercise
ContextInit ==
    /\ user = Null
    /\ fileInfo = Null
    /\ uploading = FALSE
    /\ apiData = NullData
    /\ videoResults = <<>>
    /\ videoLoading = FALSE
    /\ videoError = Null

QuizIdle ==
    /\ answers = <<>>
    /\ score = 0
    /\ saving = FALSE
    /\ syncError = Null
    /\ lastSavedScore = NoScore
    /\ syncReqs = <<>>

RenderIdle ==
    /\ highlighted = <<>>
    /\ keywordSections = <<>>
    /\ otherVideos = <<>>
    /\ vidRendered = FALSE

RevisionIdle ==
    /\ revisionIndices = <<>>
    /\ rvRendered = FALSE
    /\ rvAnswers = <<>>
    /\ rvScore = 0
    /\ rvSaving = FALSE
    /\ rvSyncError = Null
    /\ rvLastSavedScore = NoScore
    /\ rvSyncReqs = <<>>
    /\ RenderIdle

AuthIdle ==
    /\ logoutLoading = FALSE
    /\ logoutReqs = <<>>

AskIdle ==
    /\ question = ""
    /\ answer = <<>>
    /\ history = <<>>
    /\ askLoading = FALSE
    /\ askReqs = <<>>

MockIdle ==
    /\ patternRows = <<>>
    /\ mockLoading = FALSE
    /\ mockError = Null
    /\ mockTest = NullData
    /\ mockReqs = <<>>

WebIdle ==
    /\ view = "dashboard"
    /\ file = Null
    /\ webLoading = FALSE
    /\ material = NullData
    /\ studyReqs = <<>>

ElsewhereIdle == AuthIdle /\ AskIdle /\ MockIdle /\ WebIdle

\* ------------------------------------------------------------------------
\* QuizScreen
\* ------------------------------------------------------------------------
Quiz(d) == d.quiz

\* Object.keys(answers).length
NumKeys(a) == Cardinality({i \in DOMAIN a : a[i] # Undefined})

\* quiz.reduce((acc, q, idx) => currentAnswers[idx] === q.answer ? acc + 1 : acc, 0)
RECURSIVE ReduceScore(_, _, _)
ReduceScore(quiz, currentAnswers, n) ==
    IF n = 0 THEN 0
    ELSE LET acc == ReduceScore(quiz, currentAnswers, n - 1)
         IN IF currentAnswers[n] = quiz[n].answer THEN acc + 1 ELSE acc

\* Mutant of calculateScore: the comparison is !== instead of ===
calculateScoreCountsMismatches(currentAnswers) ==
    Len(Quiz(apiData)) - ReduceScore(Quiz(apiData), currentAnswers, Len(Quiz(apiData)))

calculateScore(currentAnswers) ==
    ReduceScore(Quiz(apiData), currentAnswers, Len(Quiz(apiData)))

materialId == IF apiData = NullData THEN NoMaterialId ELSE apiData.material_id

\* Mutant of selectOption: the score is computed from the answers of the
\* previous render instead of newAnswers
selectOptionStaleScore(qIdx, opt) ==
    /\ Top(nav) = "quiz"
    /\ apiData # NullData
    /\ qIdx \in 1..Len(Quiz(apiData))
    /\ opt \in {Quiz(apiData)[qIdx].options[k] : k \in 1..Len(Quiz(apiData)[qIdx].options)}
    /\ answers' = [answers EXCEPT ![qIdx] = opt]
    /\ score' = calculateScore(answers)
    /\ lastEvent' = IF answers[qIdx] = Undefined THEN "selectOption:first"
                    ELSE "selectOption:replace"
    /\ UNCHANGED <<saving, syncError, lastSavedScore, syncReqs>>
    /\ UNCHANGED <<ctxVars, routerVars, revVars, elsewhereVars>>

\* Mutant of selectOption: newAnswers is { [qIdx]: opt } without the spread of
\* the previous answers
selectOptionDropsOthers(qIdx, opt) ==
    /\ Top(nav) = "quiz"
    /\ apiData # NullData
    /\ qIdx \in 1..Len(Quiz(apiData))
    /\ opt \in {Quiz(apiData)[qIdx].options[k] : k \in 1..Len(Quiz(apiData)[qIdx].options)}
    /\ LET newAnswers == [j \in DOMAIN answers |-> IF j = qIdx THEN opt ELSE Undefined]
       IN /\ answers' = newAnswers
          /\ score' = calculateScore(newAnswers)
    /\ lastEvent' = IF answers[qIdx] = Undefined THEN "selectOption:first"
                    ELSE "selectOption:replace"
    /\ UNCHANGED <<saving, syncError, lastSavedScore, syncReqs>>
    /\ UNCHANGED <<ctxVars, routerVars, revVars, elsewhereVars>>

selectOption(qIdx, opt) ==
    /\ Top(nav) = "quiz"
    /\ apiData # NullData
    /\ qIdx \in 1..Len(Quiz(apiData))
    /\ opt \in {Quiz(apiData)[qIdx].options[k] : k \in 1..Len(Quiz(apiData)[qIdx].options)}
    /\ LET newAnswers == [answers EXCEPT ![qIdx] = opt]
       IN /\ answers' = newAnswers
          /\ score' = calculateScore(newAnswers)
    /\ lastEvent' = IF answers[qIdx] = Undefined THEN "selectOption:first"
                    ELSE "selectOption:replace"
    /\ UNCHANGED <<saving, syncError, lastSavedScore, syncReqs>>
    /\ UNCHANGED <<ctxVars, routerVars, revVars, elsewhereVars>>

\* syncStatusLabel(): the line under the score
syncStatusLabel ==
    IF user = Null \/ materialId = NoMaterialId THEN "Not synced (no user / material)"
    ELSE IF saving THEN "Saving..."
    ELSE IF syncError # Null THEN syncError
    ELSE IF lastSavedScore # NoScore THEN "Saved"
    ELSE IF NumKeys(answers) = 0 THEN "Answer questions, then submit"
    ELSE "Tap Submit to save"

canSubmit ==
    /\ user # Null
    /\ materialId # NoMaterialId
    /\ NumKeys(answers) > 0
    /\ ~saving

\* submitQuiz followed by syncPerformance up to its await fetch(...)
submitQuiz ==
    /\ Top(nav) = "quiz"
    /\ apiData # NullData
    /\ canSubmit
    /\ LET finalScore == calculateScore(answers)
       IN /\ score' = finalScore
          /\ syncReqs' = Append(syncReqs, [finalScore |-> finalScore, orphan |-> FALSE])
    /\ saving' = TRUE
    /\ syncError' = Null
    /\ UNCHANGED <<answers, lastSavedScore>>
    /\ lastEvent' = "none"
    /\ UNCHANGED <<ctxVars, routerVars, revVars, elsewhereVars>>

SyncOutcomes == {"ok", "non2xx", "throw"}

\* syncPerformance after its await: response handling, catch and finally.
\* A request is an orphan when the QuizScreen that sent it has unmounted: its
\* setState calls no longer reach the state of the screen.
syncPerformanceResolve(k, outcome) ==
    /\ k \in 1..Len(syncReqs)
    /\ syncReqs' = RemoveAt(syncReqs, k)
    /\ IF syncReqs[k].orphan
       THEN UNCHANGED <<syncError, lastSavedScore, saving>>
       ELSE /\ CASE outcome = "ok" ->
                      /\ lastSavedScore' = syncReqs[k].finalScore
                      /\ UNCHANGED syncError
                 [] outcome = "non2xx" ->
                      /\ syncError' = "Sync failed"
                      /\ UNCHANGED lastSavedScore
                 [] outcome = "throw" ->
                      /\ syncError' = "Sync error"
                      /\ UNCHANGED lastSavedScore
            /\ saving' = FALSE
    /\ UNCHANGED <<answers, score>>
    /\ lastEvent' = "none"
    /\ UNCHANGED <<ctxVars, routerVars, revVars, elsewhereVars>>

\* ------------------------------------------------------------------------
\* HomeScreen (app/home.tsx), the router and the VideosScreen effect
\* ------------------------------------------------------------------------
Files == {"f1"}
Routes == {"summary", "videos"}


HomeQuiz == <<[options |-> <<"A", "B">>, answer |-> "A"]>>

\* The dependency array of the VideosScreen effect for the current render
VideoDeps ==
    << IF apiData = NullData THEN <<Undefined>> ELSE apiData.key_topics,
       IF apiData = NullData THEN 0 ELSE apiData.summary,
       Len(videoResults),
       videoLoading >>

\* React runs the effect of a mounted VideosScreen after a render whose
\* dependency array differs from the one of its last run (always after mount);
\* pending effects are flushed before the next event is handled.
VideosEffectPending == InSeq("videos", nav) /\ videoEffectDeps # VideoDeps

\* supabase.auth.getUser().then(...) of the home screen's mount effect
GetUserResolve(outcome) ==
    /\ ~VideosEffectPending
    /\ getUserPending
    /\ getUserPending' = FALSE
    /\ IF outcome # "error" /\ InSeq("home", nav)
       THEN user' = outcome
       ELSE UNCHANGED user
    /\ lastEvent' = "none"
    /\ UNCHANGED <<fileInfo, uploading, apiData, videoResults, videoLoading, videoError>>
    /\ UNCHANGED <<nav, uploadReqs, revisionReqs, videoReqs, videoEffectDeps, nextMaterial>>
    /\ UNCHANGED <<quizVars, revVars, elsewhereVars>>

\* Mutant of onRemoveFile: the generated material is kept
onRemoveFileKeepsMaterial ==
    /\ ~VideosEffectPending
    /\ Top(nav) = "home"
    /\ fileInfo # Null
    /\ fileInfo' = Null
    /\ videoResults' = <<>>
    /\ videoError' = Null
    /\ lastEvent' = "none"
    /\ UNCHANGED <<user, uploading, apiData, videoLoading>>
    /\ UNCHANGED <<nav, uploadReqs, revisionReqs, videoReqs, getUserPending,
                   videoEffectDeps, nextMaterial>>
    /\ UNCHANGED <<quizVars, revVars, elsewhereVars>>

onRemoveFile ==
    /\ ~VideosEffectPending
    /\ Top(nav) = "home"
    /\ fileInfo # Null
    /\ fileInfo' = Null
    /\ apiData' = NullData
    /\ videoResults' = <<>>
    /\ videoError' = Null
    /\ lastEvent' = "none"
    /\ UNCHANGED <<user, uploading, videoLoading>>
    /\ UNCHANGED <<nav, uploadReqs, revisionReqs, videoReqs, getUserPending,
                   videoEffectDeps, nextMaterial>>
    /\ UNCHANGED <<quizVars, revVars, elsewhereVars>>

\* pickFile with the picker's result: "canceled", "noAsset" or the picked file
pickFile(res) ==
    /\ ~VideosEffectPending
    /\ Top(nav) = "home"
    /\ fileInfo = Null
    /\ IF res \in Files
       THEN /\ fileInfo' = res
            /\ apiData' = NullData
            /\ videoResults' = <<>>
            /\ videoError' = Null
       ELSE UNCHANGED <<fileInfo, apiData, videoResults, videoError>>
    /\ lastEvent' = "none"
    /\ UNCHANGED <<user, uploading, videoLoading>>
    /\ UNCHANGED <<nav, uploadReqs, revisionReqs, videoReqs, getUserPending,
                   videoEffectDeps, nextMaterial>>
    /\ UNCHANGED <<quizVars, revVars, elsewhereVars>>

\* Mutant of uploadDisabled: the button ignores the uploading flag
uploadDisabledIgnoresUploading == fileInfo = Null

\* The upload button is rendered with disabled={!fileInfo || uploading}
uploadDisabled == fileInfo = Null \/ uploading

\* upload() up to its await fetch(STUDY_URL, ...)
upload ==
    /\ ~VideosEffectPending
    /\ Top(nav) = "home"
    /\ ~uploadDisabled
    /\ fileInfo # Null
    /\ uploading' = TRUE
    /\ uploadReqs' = Append(uploadReqs, [file |-> fileInfo, user_id |-> user])
    /\ lastEvent' = "none"
    /\ UNCHANGED <<user, fileInfo, apiData, videoResults, videoLoading, videoError>>
    /\ UNCHANGED <<nav, revisionReqs, videoReqs, getUserPending, videoEffectDeps, nextMaterial>>
    /\ UNCHANGED <<quizVars, revVars, elsewhereVars>>

UploadOutcomes == {"ok", "non2xx", "nonJSON", "throw"}
UploadFailures == UploadOutcomes \ {"ok"}

\* The bodies the backend may answer a successful upload with: the next
\* material, with or without key topics
UploadResponses ==
    {Material(nextMaterial + 1, nextMaterial + 1, topics, HomeQuiz, NoStats(HomeQuiz), <<>>) :
        topics \in {<<>>, <<"t1">>}}

\* The body of a response that carries no study material
ErrorBody == Material(0, NoMaterialId, <<>>, <<>>, <<>>, <<>>)

\* Mutant of uploadResolve: the non-JSON branch returns without resetting
\* uploading (no finally)
uploadResolveNoFinally(k, outcome, json) ==
    /\ ~VideosEffectPending
    /\ k \in 1..Len(uploadReqs)
    /\ uploadReqs' = RemoveAt(uploadReqs, k)
    /\ IF outcome = "ok"
       THEN /\ nextMaterial < MaxMaterials
            /\ json \in UploadResponses
            /\ apiData' = json
            /\ videoResults' = <<>>
            /\ videoError' = Null
            /\ nav' = Append(nav, "summary")
            /\ nextMaterial' = nextMaterial + 1
       ELSE UNCHANGED <<apiData, videoResults, videoError, nav, nextMaterial>>
    /\ uploading' = IF outcome = "nonJSON" THEN uploading ELSE FALSE
    /\ lastEvent' = "upload:" \o outcome
    /\ UNCHANGED <<user, fileInfo, videoLoading>>
    /\ UNCHANGED <<revisionReqs, videoReqs, getUserPending, videoEffectDeps>>
    /\ UNCHANGED <<quizVars, revVars, elsewhereVars>>

\* Mutant of uploadResolve: no resp.ok check, the body of a non-2xx response
\* is stored as the study material
uploadResolveNoStatusCheck(k, outcome, json) ==
    /\ ~VideosEffectPending
    /\ k \in 1..Len(uploadReqs)
    /\ uploadReqs' = RemoveAt(uploadReqs, k)
    /\ CASE outcome = "ok" ->
              /\ nextMaterial < MaxMaterials
              /\ json \in UploadResponses
              /\ apiData' = json
              /\ videoResults' = <<>>
              /\ videoError' = Null
              /\ nav' = Append(nav, "summary")
              /\ nextMaterial' = nextMaterial + 1
         [] outcome = "non2xx" ->
              /\ apiData' = ErrorBody
              /\ videoResults' = <<>>
              /\ videoError' = Null
              /\ nav' = Append(nav, "summary")
              /\ UNCHANGED nextMaterial
         [] OTHER -> UNCHANGED <<apiData, videoResults, videoError, nav, nextMaterial>>
    /\ uploading' = FALSE
    /\ lastEvent' = "upload:" \o outcome
    /\ UNCHANGED <<user, fileInfo, videoLoading>>
    /\ UNCHANGED <<revisionReqs, videoReqs, getUserPending, videoEffectDeps>>
    /\ UNCHANGED <<quizVars, revVars, elsewhereVars>>

\* upload() after its await: parse, status check, success path, catch, finally
\* Mutant of uploadResolve: the success path keeps the video state of the
\* material it replaces
uploadResolveKeepsVideos(k, outcome, json) ==
    /\ ~VideosEffectPending
    /\ k \in 1..Len(uploadReqs)
    /\ uploadReqs' = RemoveAt(uploadReqs, k)
    /\ IF outcome = "ok"
       THEN /\ nextMaterial < MaxMaterials
            /\ json \in UploadResponses
            /\ apiData' = json
            /\ nav' = Append(nav, "summary")
            /\ nextMaterial' = nextMaterial + 1
       ELSE UNCHANGED <<apiData, nav, nextMaterial>>
    /\ uploading' = FALSE
    /\ lastEvent' = "upload:" \o outcome
    /\ UNCHANGED <<user, fileInfo, videoLoading, videoResults, videoError>>
    /\ UNCHANGED <<revisionReqs, videoReqs, getUserPending, videoEffectDeps>>
    /\ UNCHANGED <<quizVars, revVars, elsewhereVars>>

uploadResolve(k, outcome, json) ==
    /\ ~VideosEffectPending
    /\ k \in 1..Len(uploadReqs)
    /\ uploadReqs' = RemoveAt(uploadReqs, k)
    /\ IF outcome = "ok"
       THEN /\ nextMaterial < MaxMaterials
            /\ json \in UploadResponses
            /\ apiData' = json
            /\ videoResults' = <<>>
            /\ videoError' = Null
            /\ nav' = Append(nav, "summary")
            /\ nextMaterial' = nextMaterial + 1
       ELSE UNCHANGED <<apiData, videoResults, videoError, nav, nextMaterial>>
    /\ uploading' = FALSE
    /\ lastEvent' = "upload:" \o outcome
    /\ UNCHANGED <<user, fileInfo, videoLoading>>
    /\ UNCHANGED <<revisionReqs, videoReqs, getUserPending, videoEffectDeps>>
    /\ UNCHANGED <<quizVars, revVars, elsewhereVars>>

\* loadRevisionQuiz() up to its await fetch(REVISION_QUIZ_URL, ...); the
\* closure keeps the apiData and the user of the render it was created in
loadRevisionQuiz ==
    /\ ~VideosEffectPending
    /\ Top(nav) = "home"
    /\ apiData # NullData            \* the FeatureList is rendered
    /\ user # Null
    /\ apiData.material_id # NoMaterialId
    /\ Len(revisionReqs) < MaxRevisionLoads
    /\ revisionReqs' = Append(revisionReqs, [apiData |-> apiData, user_id |-> user])
    /\ lastEvent' = "none"
    /\ UNCHANGED ctxVars
    /\ UNCHANGED <<nav, uploadReqs, videoReqs, getUserPending, videoEffectDeps, nextMaterial>>
    /\ UNCHANGED <<quizVars, revVars, elsewhereVars>>

RevisionOutcomes == {"ok", "okNoStats", "error", "empty", "throw"}

\* json.stats of a successful revision_quiz response
RevisionStats(quiz) == [i \in 1..Len(quiz) |-> [attempts |-> <<1>>, correct |-> <<0>>]]

\* loadRevisionQuiz() after its await
loadRevisionQuizResolve(k, outcome) ==
    /\ ~VideosEffectPending
    /\ k \in 1..Len(revisionReqs)
    /\ revisionReqs' = RemoveAt(revisionReqs, k)
    /\ LET base == revisionReqs[k].apiData
       IN IF outcome \in {"ok", "okNoStats"}
          THEN /\ apiData' = [base EXCEPT
                                !.revision_questions = <<1>>,
                                !.per_question = IF outcome = "ok"
                                                 THEN RevisionStats(base.quiz)
                                                 ELSE base.per_question]
               /\ nav' = Append(nav, "revision-quiz")
          ELSE UNCHANGED <<apiData, nav>>
    /\ lastEvent' = "none"
    /\ UNCHANGED <<user, fileInfo, uploading, videoResults, videoLoading, videoError>>
    /\ UNCHANGED <<uploadReqs, videoReqs, getUserPending, videoEffectDeps, nextMaterial>>
    /\ UNCHANGED <<quizVars, revVars, elsewhereVars>>

\* A feature card of the home screen: router.push(route)
NavigateTo(route) ==
    /\ ~VideosEffectPending
    /\ Top(nav) = "home"
    /\ apiData # NullData
    /\ nav' = Append(nav, route)
    /\ lastEvent' = "none"
    /\ UNCHANGED ctxVars
    /\ UNCHANGED <<uploadReqs, revisionReqs, videoReqs, getUserPending, videoEffectDeps, nextMaterial>>
    /\ UNCHANGED <<quizVars, revVars, elsewhereVars>>

\* The back button of the stack navigator: the top screen unmounts
Back ==
    /\ ~VideosEffectPending
    /\ Len(nav) > 1
    /\ nav' = SubSeq(nav, 1, Len(nav) - 1)
    /\ videoEffectDeps' = IF Top(nav) = "videos" THEN <<>> ELSE videoEffectDeps
    /\ lastEvent' = "none"
    /\ UNCHANGED ctxVars
    /\ UNCHANGED <<uploadReqs, revisionReqs, videoReqs, getUserPending, nextMaterial>>
    /\ UNCHANGED <<quizVars, revVars, elsewhereVars>>

\* The guards at the head of the VideosScreen effect
fetchVideosWanted ==
    /\ apiData # NullData
    /\ Len(apiData.key_topics) > 0
    /\ ~(Len(videoResults) > 0 \/ videoLoading)

\* One run of the VideosScreen effect: the guards, then fetchVideos() up to
\* its await fetch(RECOMMEND_URL, ...)
VideosEffect ==
    /\ VideosEffectPending
    /\ videoEffectDeps' = VideoDeps
    /\ IF fetchVideosWanted
       THEN /\ videoLoading' = TRUE
            /\ videoError' = Null
            /\ videoReqs' = Append(videoReqs, [summary |-> apiData.summary])
       ELSE UNCHANGED <<videoLoading, videoError, videoReqs>>
    /\ UNCHANGED <<user, fileInfo, uploading, apiData, videoResults>>
    /\ UNCHANGED <<nav, uploadReqs, revisionReqs, getUserPending, nextMaterial,
                   lastEvent>>
    /\ UNCHANGED <<quizVars, revVars, elsewhereVars>>

VideoOutcomes == {"ok", "okEmpty", "non2xx", "errorField", "throw"}
VideoFailures == {"non2xx", "errorField", "throw"}

\* fetchVideos() after its await: status check, error field, success, catch, finally
fetchVideosResolve(k, outcome) ==
    /\ ~VideosEffectPending
    /\ k \in 1..Len(videoReqs)
    /\ videoReqs' = RemoveAt(videoReqs, k)
    /\ CASE outcome = "ok" ->
              /\ videoResults' = <<[material |-> videoReqs[k].summary,
                                    matched_keyword |-> "t1"]>>
              /\ UNCHANGED videoError
         [] outcome = "okEmpty" ->
              /\ videoResults' = <<>>
              /\ UNCHANGED videoError
         [] outcome = "non2xx" ->
              /\ videoError' = "Video API error"
              /\ UNCHANGED videoResults
         [] outcome = "errorField" ->
              /\ videoError' = "json.error"
              /\ videoResults' = <<>>
         [] outcome = "throw" ->
              /\ videoError' = "exception"
              /\ UNCHANGED videoResults
    /\ videoLoading' = FALSE
    /\ lastEvent' = "fetchVideos:" \o outcome
    /\ UNCHANGED <<user, fileInfo, uploading, apiData>>
    /\ UNCHANGED <<nav, uploadReqs, revisionReqs, getUserPending, videoEffectDeps, nextMaterial>>
    /\ UNCHANGED <<quizVars, revVars, elsewhereVars>>

HomeInit ==
    /\ ContextInit
    /\ nav = <<"home">>
    /\ uploadReqs = <<>>
    /\ revisionReqs = <<>>
    /\ videoReqs = <<>>
    /\ getUserPending = TRUE
    /\ videoEffectDeps = <<>>
    /\ nextMaterial = 0
    /\ lastEvent = "none"
    /\ QuizIdle
    /\ RevisionIdle
    /\ ElsewhereIdle

HomeNext ==
    \/ \E outcome \in Users \cup {Null, "error"} : GetUserResolve(outcome)
    \/ \E res \in Files \cup {"canceled", "noAsset"} : pickFile(res)
    \/ onRemoveFile
    \/ upload
    \/ \E k \in 1..Len(uploadReqs), outcome \in UploadOutcomes :
          \E json \in (IF outcome = "ok" THEN UploadResponses ELSE {NullData}) :
             uploadResolve(k, outcome, json)
    \/ loadRevisionQuiz
    \/ \E k \in 1..Len(revisionReqs), outcome \in RevisionOutcomes :
          loadRevisionQuizResolve(k, outcome)
    \/ \E route \in Routes : NavigateTo(route)
    \/ Back
    \/ VideosEffect
    \/ \E k \in 1..Len(videoReqs), outcome \in VideoOutcomes : fetchVideosResolve(k, outcome)

SpecHome == HomeInit /\ [][HomeNext]_vars

UploadFailed == lastEvent \in {"upload:" \o o : o \in UploadFailures}
VideoFetchFailed == lastEvent \in {"fetchVideos:" \o o : o \in VideoFailures}

\* C3: the step that removes the selected file (onRemoveFile) leaves the
\* generated material null, videoResults empty and videoError null.
RemoveFileClearsDerivedState ==
    [][(fileInfo # Null /\ fileInfo' = Null) =>
          (apiData' = NullData /\ videoResults' = <<>> /\ videoError' = Null)]_vars

\* C3 witness: a material was generated and its file has been removed
RemoveFileWitness ==
    /\ nextMaterial > 0
    /\ fileInfo = Null
    /\ apiData = NullData
    /\ uploadReqs = <<>>

\* C4: once the file has been removed the generated material stays null until
\* a file is picked again; an upload outstanding at the removal does not set it.
RemovedFileKeepsMaterialNull ==
    fileInfo = Null => apiData = NullData

\* C5: after a failed recommend_videos request no further request is sent
\* unless the user acts: the screen does not retry by itself.
NoAutomaticVideoRetry ==
    [][Len(videoReqs') > Len(videoReqs) => ~VideoFetchFailed]_vars

\* C6: at most one study_material upload is outstanding at any time, and
\* uploading is true while there is one (the upload control is disabled).
AtMostOneUploadOutstanding ==
    /\ Len(uploadReqs) <= 1
    /\ Len(uploadReqs) = 1 => uploading

\* C6 witness: an upload is outstanding while a file is selected
OneUploadOutstandingWitness ==
    /\ Len(uploadReqs) = 1
    /\ uploading
    /\ fileInfo # Null
    /\ Top(nav) = "home"

\* C7: every upload ends with uploading = false when its request resolves,
\* whatever the outcome, and uploading is never true with no upload outstanding.
UploadingClearedOnResolve ==
    [][/\ Len(uploadReqs') < Len(uploadReqs) => ~uploading'
       /\ uploading' => Len(uploadReqs') > 0]_vars

\* C7 witness: an upload has just ended in a non-JSON body
UploadingClearedWitness ==
    /\ lastEvent = "upload:nonJSON"
    /\ ~uploading
    /\ uploadReqs = <<>>

\* C8: a failed upload (non-2xx, non-JSON body, exception) leaves apiData,
\* fileInfo, videoResults and videoError as they were and does not navigate.
UploadFailureKeepsState ==
    [][(Len(uploadReqs') < Len(uploadReqs) /\ UploadFailed') =>
          UNCHANGED <<apiData, fileInfo, videoResults, videoError, nav>>]_vars

\* C8 witness: a re-generation failed with a non-2xx status and the material
\* generated before is still held
UploadFailureWitness ==
    /\ lastEvent = "upload:non2xx"
    /\ apiData # NullData
    /\ fileInfo # Null

\* C9: the shared context (apiData, videoResults, videoError, videoLoading) is
\* written only by a handler of the screen that is on top of the stack.
ContextWrittenByActiveScreen ==
    [][<<apiData, videoResults, videoError, videoLoading>>' #
           <<apiData, videoResults, videoError, videoLoading>> =>
          Top(nav) = (IF videoReqs' # videoReqs THEN "videos" ELSE "home")]_vars

\* C10: no two operations that write the study material are outstanding at
\* the same time (an upload and a revision-quiz load, or two such loads).
NoOverlappingMaterialWriters ==
    Len(uploadReqs) + Len(revisionReqs) <= 1

\* C11: the step that completes an upload successfully leaves apiData equal
\* to the material the backend just returned (the next one it generates, no
\* field of the previous material kept), videoResults empty and videoError
\* null.
UploadSuccessReplacesMaterial ==
    [][(Len(uploadReqs') < Len(uploadReqs) /\ lastEvent' = "upload:ok") =>
          /\ apiData' \in UploadResponses
          /\ videoResults' = <<>>
          /\ videoError' = Null]_vars

\* C11 witness: a second material has just replaced the first one
UploadSuccessWitness ==
    /\ lastEvent = "upload:ok"
    /\ nextMaterial = 2
    /\ apiData # NullData
    /\ apiData.summary = 2
    /\ videoResults = <<>>
    /\ videoError = Null

RevisionLoadKeepsNewerMaterial ==
    [][\A k \in 1..Len(revisionReqs) :
          (/\ revisionReqs' = RemoveAt(revisionReqs, k)
           /\ revisionReqs[k].apiData # apiData) => apiData' = apiData]_vars

\* C25: the step that completes a recommend_videos request with an empty
\* list sets videoLoading to false, and the step after it sends no further
\* request (every user action resets lastEvent).
QuiescentAfterEmptyVideoList ==
    [][/\ (Len(videoReqs') < Len(videoReqs) /\ lastEvent' = "fetchVideos:okEmpty")
             => videoLoading' = FALSE
       /\ lastEvent = "fetchVideos:okEmpty" => Len(videoReqs') <= Len(videoReqs)]_vars

\* QuizScreen mounted on a material the context holds
QuizInit ==
    /\ user \in Users \cup {Null}
    /\ fileInfo = "f1"
    /\ uploading = FALSE
    /\ \E quiz \in SeqsUpTo(Question, MaxQuizLen) \ {<<>>}, mid \in {NoMaterialId, 1} :
          /\ apiData = Material(1, mid, <<"t1">>, quiz, NoStats(quiz), <<>>)
          /\ answers = [i \in 1..Len(quiz) |-> Undefined]
    /\ videoResults = <<>>
    /\ videoLoading = FALSE
    /\ videoError = Null
    /\ nav = <<"home", "quiz">>
    /\ uploadReqs = <<>>
    /\ revisionReqs = <<>>
    /\ videoReqs = <<>>
    /\ getUserPending = FALSE
    /\ videoEffectDeps = <<>>
    /\ nextMaterial = 1
    /\ lastEvent = "none"
    /\ score = 0
    /\ saving = FALSE
    /\ syncError = Null
    /\ lastSavedScore = NoScore
    /\ syncReqs = <<>>
    /\ RevisionIdle
    /\ ElsewhereIdle

QuizNext ==
    \/ \E qIdx \in 1..MaxQuizLen, opt \in Options : selectOption(qIdx, opt)
    \/ submitQuiz
    \/ \E k \in 1..Len(syncReqs), outcome \in SyncOutcomes : syncPerformanceResolve(k, outcome)

SpecQuiz == QuizInit /\ [][QuizNext]_vars

SelectionOverwriteFrame ==
    [][\A i \in DOMAIN answers :
          (answers[i] # Undefined /\ answers'[i] # answers[i]) =>
             /\ answers'[i] \in {apiData.quiz[i].options[k] :
                                    k \in 1..Len(apiData.quiz[i].options)}
             /\ \A j \in DOMAIN answers \ {i} : answers'[j] = answers[j]
             /\ score' = Cardinality({j \in DOMAIN answers :
                                         answers'[j] = apiData.quiz[j].answer})]_vars

\* C12 witness: with both questions answered, a selection was replaced and
\* the score is the count for the selections now held
SelectionOverwriteWitness ==
    /\ lastEvent = "selectOption:replace"
    /\ Len(apiData.quiz) = 2
    /\ apiData.quiz[1].answer = "A" /\ apiData.quiz[2].answer = "A"
    /\ answers = <<"B", "A">>
    /\ score = 1

\* C13: a quiz-screen step that changes the selection of one question to
\* that question's correct answer and leaves every other selection as it was
\* does not lower the score.
ScoreMonotoneOnCorrectAnswer ==
    [][\A i \in DOMAIN answers :
          (/\ answers'[i] # answers[i]
           /\ answers'[i] = apiData.quiz[i].answer
           /\ \A j \in DOMAIN answers \ {i} : answers'[j] = answers[j]) =>
             score' >= score]_vars

\* C13 witness: the first selection of a one-question quiz is the correct
\* answer; the score went from 0 to 1
ScoreMonotoneWitness ==
    /\ lastEvent = "selectOption:first"
    /\ Len(apiData.quiz) = 1
    /\ apiData.quiz[1].answer = "A"
    /\ answers = <<"A">>
    /\ score = 1

\* C27: on the quiz screen the score counts only questions for which an
\* option is selected, whatever quiz the backend returned: a question with
\* no stored selection never counts, even when its answer field is missing.
UnselectedNeverCounts ==
    apiData # NullData =>
        score = Cardinality({i \in 1..Len(apiData.quiz) :
                                /\ answers[i] # Undefined
                                /\ answers[i] = apiData.quiz[i].answer})

\* C28: whenever the sync status of the quiz screen reads "Saved", the
\* displayed score is the score of the last successfully submitted attempt.
SavedLabelMatchesScore ==
    (Top(nav) = "quiz" /\ syncStatusLabel = "Saved") => score = lastSavedScore

\* ------------------------------------------------------------------------
\* RevisionQuizScreen
\* ------------------------------------------------------------------------
\* Mutant of Coalesce: a missing counter reads 1 (x ?? 1)
CoalesceDefaultsToOne(c, d) == IF c = <<>> THEN 1 ELSE c[1]

\* x ?? d for a counter
Coalesce(c, d) == IF c = <<>> THEN d ELSE c[1]

\* accuracy < 0.5, accuracy being the quotient num / den of two integers, den > 0
LessThanHalf(num, den) == 2 * num < den

\* Mutant of needsRevision: the low-accuracy rule needs more than 3 attempts
needsRevisionOffByOne(attempts, correct) ==
    \/ (attempts >= 1 /\ correct = 0)
    \/ (attempts > 3 /\ LessThanHalf(correct, attempts))

\* needsRevision of the revision-quiz screen, for the body of the forEach
\* callback after its two early returns
needsRevision(attempts, correct) ==
    LET accuracyBelowHalf == IF attempts > 0 THEN LessThanHalf(correct, attempts)
                             ELSE 0 < 1   \* accuracy = 0
    IN \/ (attempts >= 1 /\ correct = 0)
       \/ (attempts >= 3 /\ accuracyBelowHalf)

\* One call of the forEach callback: TRUE when idx is pushed
PushesIndex(perQuestion, idx, len) ==
    LET statsForQ == perQuestion[idx]
    IN IF statsForQ = NullData THEN FALSE
       ELSE LET attempts == Coalesce(statsForQ.attempts, 0)
                correct == Coalesce(statsForQ.correct, 0)
            IN IF attempts = 0 THEN FALSE
               ELSE needsRevision(attempts, correct) /\ idx >= 1 /\ idx <= len

\* allQuiz.forEach(...) building revisionIndices, in input order
RECURSIVE BuildRevisionIndices(_, _, _)
BuildRevisionIndices(perQuestion, len, n) ==
    IF n = 0 THEN <<>>
    ELSE LET before == BuildRevisionIndices(perQuestion, len, n - 1)
         IN IF PushesIndex(perQuestion, n, len) THEN Append(before, n) ELSE before

\* The render of RevisionQuizScreen up to the revision list
RevisionQuizRender ==
    /\ apiData # NullData
    /\ Len(apiData.quiz) > 0
    /\ revisionIndices' =
          BuildRevisionIndices(apiData.per_question, Len(apiData.quiz), Len(apiData.quiz))
    /\ rvRendered' = TRUE
    /\ UNCHANGED <<revLocalVars, renderVars>>
    /\ UNCHANGED <<ctxVars, homeVars, quizVars, elsewhereVars>>

RevisionQuestion == [options |-> <<"A", "B">>, answer |-> "A"]

RevisionInit ==
    /\ user \in Users
    /\ fileInfo = "f1"
    /\ uploading = FALSE
    /\ \E len \in 1..MaxRevQuizLen :
          \E pq \in [1..len -> StatsEntry \cup {NullData}] :
             apiData = Material(1, 1, <<"t1">>, [i \in 1..len |-> RevisionQuestion], pq, <<>>)
    /\ videoResults = <<>>
    /\ videoLoading = FALSE
    /\ videoError = Null
    /\ nav = <<"home", "revision-quiz">>
    /\ uploadReqs = <<>>
    /\ revisionReqs = <<>>
    /\ videoReqs = <<>>
    /\ getUserPending = FALSE
    /\ videoEffectDeps = <<>>
    /\ nextMaterial = 1
    /\ lastEvent = "none"
    /\ QuizIdle
    /\ RevisionIdle
    /\ ElsewhereIdle

RevisionNext ==
    RevisionQuizRender

SpecRevision == RevisionInit /\ [][RevisionNext]_vars

\* C2: on the revision-quiz screen the question at index i is in the revision
\* list iff its counters satisfy (attempts >= 1 and correct = 0) or
\* (attempts >= 3 and correct/attempts < 0.5), a missing counter reading 0 and
\* a question without stats entry being left out.
RevisionListMatchesPredicate ==
    rvRendered =>
        \A i \in 1..Len(apiData.quiz) :
            LET st == apiData.per_question[i]
                a == IF st = NullData THEN 0 ELSE Coalesce(st.attempts, 0)
                c == IF st = NullData THEN 0 ELSE Coalesce(st.correct, 0)
            IN InSeq(i, revisionIndices) <=>
                 /\ st # NullData
                 /\ \/ (a >= 1 /\ c = 0)
                    \/ (a >= 3 /\ 2 * c < a)

\* C2 witness: the spec's example, attempts 3 and correct 1, is flagged
RevisionListWitness ==
    /\ rvRendered
    /\ apiData.per_question[1] = [attempts |-> <<3>>, correct |-> <<1>>]
    /\ InSeq(1, revisionIndices)

\* C14: on the revision-quiz screen a question that was never attempted is
\* not in the revision list: a question without stats entry, and a question
\* whose attempts counter is 0 or missing, whatever its correct counter.
NeverAttemptedExcluded ==
    rvRendered =>
        \A i \in 1..Len(apiData.quiz) :
            LET st == apiData.per_question[i]
            IN (st = NullData \/ st.attempts \in {<<>>, <<0>>}) =>
                   ~InSeq(i, revisionIndices)

\* C14 witness: question 1 has an entry with the attempts counter missing and
\* correct 0, question 2 was attempted once without success; only question 2
\* is listed
NeverAttemptedWitness ==
    /\ rvRendered
    /\ Len(apiData.quiz) = 2
    /\ apiData.per_question[1] = [attempts |-> <<>>, correct |-> <<0>>]
    /\ apiData.per_question[2] = [attempts |-> <<1>>, correct |-> <<0>>]
    /\ revisionIndices = <<2>>

\* ------------------------------------------------------------------------
\* ProfileScreen (app/profile.tsx) and the login screen (app/index.tsx)
\* ------------------------------------------------------------------------
\* The profile button of the home screen: router.push("/profile")
openProfile ==
    /\ ~VideosEffectPending
    /\ Top(nav) = "home"
    /\ Len(nav) < MaxNavDepth
    /\ nav' = Append(nav, "profile")
    /\ lastEvent' = "none"
    /\ UNCHANGED ctxVars
    /\ UNCHANGED <<uploadReqs, revisionReqs, videoReqs, getUserPending, videoEffectDeps, nextMaterial>>
    /\ UNCHANGED <<quizVars, revVars, elsewhereVars>>

\* logout up to its await supabase.auth.signOut(); the button is disabled
\* while loading
logout ==
    /\ ~VideosEffectPending
    /\ Top(nav) = "profile"
    /\ ~logoutLoading
    /\ logoutLoading' = TRUE
    /\ logoutReqs' = Append(logoutReqs, "signOut")
    /\ lastEvent' = "none"
    /\ UNCHANGED <<ctxVars, routerVars, quizVars, revVars, askVars, mockVars, webVars>>

LogoutOutcomes == {"ok", "error", "throw"}

\* logout after its await: the error alert, router.replace("/") and finally
logoutResolve(k, outcome) ==
    /\ ~VideosEffectPending
    /\ k \in 1..Len(logoutReqs)
    /\ logoutReqs' = RemoveAt(logoutReqs, k)
    /\ nav' = IF outcome = "ok" THEN [nav EXCEPT ![Len(nav)] = "index"] ELSE nav
    /\ videoEffectDeps' = IF outcome = "ok" /\ Top(nav) = "videos" THEN <<>> ELSE videoEffectDeps
    /\ logoutLoading' = FALSE
    /\ lastEvent' = "logout:" \o outcome
    /\ UNCHANGED ctxVars
    /\ UNCHANGED <<uploadReqs, revisionReqs, videoReqs, getUserPending, nextMaterial>>
    /\ UNCHANGED <<quizVars, revVars, askVars, mockVars, webVars>>

\* The login screen once a session exists (onAuthStateChange, signInWithEmail,
\* signUpWithEmail): router.replace("/home"); the HomeScreen that mounts
\* starts its getUser effect
signInResolve ==
    /\ ~VideosEffectPending
    /\ Top(nav) = "index"
    /\ nav' = [nav EXCEPT ![Len(nav)] = "home"]
    /\ getUserPending' = TRUE
    /\ lastEvent' = "none"
    /\ UNCHANGED ctxVars
    /\ UNCHANGED <<uploadReqs, revisionReqs, videoReqs, videoEffectDeps, nextMaterial>>
    /\ UNCHANGED <<quizVars, revVars, elsewhereVars>>

SessionNext ==
    \/ \E outcome \in Users \cup {Null, "error"} : GetUserResolve(outcome)
    \/ \E res \in Files \cup {"canceled", "noAsset"} : pickFile(res)
    \/ onRemoveFile
    \/ upload
    \/ \E k \in 1..Len(uploadReqs), outcome \in UploadOutcomes :
          \E json \in (IF outcome = "ok" THEN UploadResponses ELSE {NullData}) :
             uploadResolve(k, outcome, json)
    \/ Back
    \/ openProfile
    \/ logout
    \/ \E k \in 1..Len(logoutReqs), outcome \in LogoutOutcomes : logoutResolve(k, outcome)
    \/ signInResolve

SpecSession == HomeInit /\ [][SessionNext]_vars

\* C15: when the sign-out started on the profile screen has just succeeded,
\* the user held by the StudyContext is null.
SignOutClearsUser ==
    lastEvent = "logout:ok" => user = Null

\* ------------------------------------------------------------------------
\* AskScreen (app/ask.tsx)
\* ------------------------------------------------------------------------
\* A string the screen shows is the sequence of its tokens; "" is <<>>.
\* The markdown tokens formatAnswer looks for are "**", "*" and " ".

\* apiData.text, Undefined when the material has no text field
DocText(d) ==
    IF d = NullData THEN Undefined
    ELSE IF "text" \in DOMAIN d THEN d.text ELSE Undefined

\* a material whose response carried the extracted text
WithText(d, text) ==
    [summary |-> d.summary, material_id |-> d.material_id, key_topics |-> d.key_topics,
     quiz |-> d.quiz, per_question |-> d.per_question,
     revision_questions |-> d.revision_questions, text |-> text]

\* .replace(/\*\*(.*?)\*\*/g, "$1"): each "**" that has a later "**" on its
\* line is dropped together with that one
RECURSIVE RemoveBold(_)
RemoveBold(raw) ==
    IF raw = <<>> THEN <<>>
    ELSE IF Head(raw) = "**" /\ InSeq("**", Tail(raw))
         THEN LET rest == Tail(raw)
                  close == CHOOSE k \in 1..Len(rest) :
                              /\ rest[k] = "**"
                              /\ \A j \in 1..(k - 1) : rest[j] # "**"
              IN SubSeq(rest, 1, close - 1) \o RemoveBold(SubSeq(rest, close + 1, Len(rest)))
         ELSE <<Head(raw)>> \o RemoveBold(Tail(raw))

RECURSIVE DropSpaces(_)
DropSpaces(raw) ==
    IF raw # <<>> /\ Head(raw) = " " THEN DropSpaces(Tail(raw)) ELSE raw

\* .replace(/^\s*[\*]\s+/gm, "\u2022 ") on a one-line answer: leading spaces,
\* a star and the spaces after it become the bullet and one space
BulletStar(raw) ==
    LET lead == DropSpaces(raw)
    IN IF lead # <<>> /\ Head(lead) = "*" /\ Tail(lead) # <<>> /\ Head(Tail(lead)) = " "
       THEN <<"bullet", " ">> \o DropSpaces(Tail(lead))
       ELSE raw

\* .replace(/ {2,}/g, " ")
RECURSIVE CollapseSpaces(_)
CollapseSpaces(raw) ==
    IF Len(raw) < 2 THEN raw
    ELSE IF raw[1] = " " /\ raw[2] = " " THEN CollapseSpaces(Tail(raw))
         ELSE <<Head(raw)>> \o CollapseSpaces(Tail(raw))

formatAnswer(raw) == CollapseSpaces(BulletStar(RemoveBold(raw)))

\* the first entries of the suggested questions
Suggested == {"What are the main topics in this PDF?",
              "Summarize this document in simple terms."}

\* what the user types into the input
Typed == {"", "q1"}

\* data.answer of the responses
RawAnswers == {<<"a">>, <<"**", "a", "**">>, <<"*", " ", "a", " ", " ", "b">>}

\* onChangeText={setQuestion}
setQuestion(text) ==
    /\ question' = text
    /\ lastEvent' = "none"
    /\ UNCHANGED <<answer, history, askLoading, askReqs>>
    /\ UNCHANGED <<ctxVars, routerVars, quizVars, revVars, authVars, mockVars, webVars>>

\* ask(q) up to its await fetch(ASK_URL, ...)
ask(q) ==
    /\ ~(q = "" \/ DocText(apiData) = Undefined)
    /\ Len(history) + Len(askReqs) < MaxAsks
    /\ askLoading' = TRUE
    /\ answer' = <<>>
    /\ askReqs' = Append(askReqs, [text |-> DocText(apiData), question |-> q])
    /\ lastEvent' = "none"
    /\ UNCHANGED <<question, history>>
    /\ UNCHANGED <<ctxVars, routerVars, quizVars, revVars, authVars, mockVars, webVars>>

\* the Ask button: disabled={!question || loading}
askButtonPress ==
    /\ ~(question = "" \/ askLoading)
    /\ ask(question)

\* onSubmitEditing of the text input
submitEditing == ask(question)

\* a suggested question is tapped
suggestedPress(s) == ask(s)

AskOutcomes == {"ok", "noAnswer", "throw"}

\* ask after its await: the answer, the catch and finally
askResolve(k, outcome, raw) ==
    /\ k \in 1..Len(askReqs)
    /\ askReqs' = RemoveAt(askReqs, k)
    /\ CASE outcome = "ok" ->
              /\ history' = Append(history, [question |-> askReqs[k].question,
                                             answer |-> formatAnswer(raw)])
              /\ answer' = formatAnswer(raw)
         [] outcome = "noAnswer" ->
              /\ history' = Append(history, [question |-> askReqs[k].question,
                                             answer |-> formatAnswer(<<"No answer found.">>)])
              /\ answer' = formatAnswer(<<"No answer found.">>)
         [] outcome = "throw" ->
              /\ answer' = <<"Error: ", "Network request failed">>
              /\ UNCHANGED history
    /\ askLoading' = FALSE
    /\ question' = ""
    /\ lastEvent' = "ask:" \o outcome
    /\ UNCHANGED <<ctxVars, routerVars, quizVars, revVars, authVars, mockVars, webVars>>

\* the x of the answer card: setAnswer("")
clearAnswer ==
    /\ answer # <<>>
    /\ answer' = <<>>
    /\ lastEvent' = "none"
    /\ UNCHANGED <<question, history, askLoading, askReqs>>
    /\ UNCHANGED <<ctxVars, routerVars, quizVars, revVars, authVars, mockVars, webVars>>

\* AskScreen mounted on a material that carries its text
AskInit ==
    /\ user \in Users
    /\ fileInfo = "f1"
    /\ uploading = FALSE
    /\ apiData = WithText(Material(1, 1, <<"t1">>, <<>>, <<>>, <<>>), "text1")
    /\ videoResults = <<>>
    /\ videoLoading = FALSE
    /\ videoError = Null
    /\ nav = <<"home", "ask">>
    /\ uploadReqs = <<>>
    /\ revisionReqs = <<>>
    /\ videoReqs = <<>>
    /\ getUserPending = FALSE
    /\ videoEffectDeps = <<>>
    /\ nextMaterial = 1
    /\ lastEvent = "none"
    /\ QuizIdle
    /\ RevisionIdle
    /\ AuthIdle
    /\ AskIdle
    /\ MockIdle
    /\ WebIdle

AskNext ==
    \/ \E text \in Typed : setQuestion(text)
    \/ askButtonPress
    \/ submitEditing
    \/ \E s \in Suggested : suggestedPress(s)
    \/ \E k \in 1..Len(askReqs), outcome \in AskOutcomes :
          \E raw \in (IF outcome = "ok" THEN RawAnswers ELSE {<<>>}) :
             askResolve(k, outcome, raw)
    \/ clearAnswer

SpecAsk == AskInit /\ [][AskNext]_vars

\* C16: on the Ask screen at most one ask_question request is outstanding
\* at any time, whichever control started it.
AtMostOneAskOutstanding ==
    Len(askReqs) <= 1

\* C26: the step that completes the request of an earlier question, while the
\* request of a later, different question is outstanding, leaves the
\* displayed answer as it was: only the most recently asked question's
\* response is shown.
EarlierAnswerNeverDisplayed ==
    [][\A k \in 1..Len(askReqs) :
          (/\ askReqs' = RemoveAt(askReqs, k)
           /\ k < Len(askReqs)
           /\ askReqs[k].question # Top(askReqs).question) => answer' = answer]_vars

\* ------------------------------------------------------------------------
\* MockTestScreen (app/mock-test.tsx)
\* ------------------------------------------------------------------------
\* The count of a pattern row is a string: the sequence of its characters.
Digits == <<"0", "1", "2", "3", "4", "5", "6", "7", "8", "9">>

IsDigit(ch) == InSeq(ch, Digits)

DigitValue(ch) == (CHOOSE k \in 1..Len(Digits) : Digits[k] = ch) - 1

DEFAULT_PATTERN ==
    << [marks |-> 10, count |-> <<"3">>],
       [marks |-> 5, count |-> <<"4">>],
       [marks |-> 3, count |-> <<"1", "0">>],
       [marks |-> 2, count |-> <<"5">>],
       [marks |-> 1, count |-> <<"1", "0">>] >>

\* value.replace(/[^0-9]/g, "")
sanitize(value) == SelectSeq(value, IsDigit)

\* the digits parseInt(str, 10) reads: the longest prefix of digits
RECURSIVE DigitPrefix(_)
DigitPrefix(str) ==
    IF str = <<>> \/ ~IsDigit(Head(str)) THEN <<>>
    ELSE <<Head(str)>> \o DigitPrefix(Tail(str))

RECURSIVE DecimalValue(_)
DecimalValue(digits) ==
    IF digits = <<>> THEN 0
    ELSE 10 * DecimalValue(SubSeq(digits, 1, Len(digits) - 1)) + DigitValue(digits[Len(digits)])

\* parseInt(row.count || "0", 10) || 0: NaN (no leading digit) reads 0
parseCount(count) ==
    LET str == IF count = <<>> THEN <<"0">> ELSE count
    IN DecimalValue(DigitPrefix(str))

\* what the user types into a count input
TypedCounts == {<<>>, <<"0">>, <<"2">>, <<"2", "x">>}

handleChangeCount(index, value) ==
    /\ index \in 1..Len(patternRows)
    /\ patternRows' = [patternRows EXCEPT ![index].count = sanitize(value)]
    /\ lastEvent' = "none"
    /\ UNCHANGED <<mockLoading, mockError, mockTest, mockReqs>>
    /\ UNCHANGED <<ctxVars, routerVars, quizVars, revVars, authVars, askVars, webVars>>

\* Mutant of patternPayload: the filter keeps the rows whose count is 0
patternPayloadKeepsZeroRows ==
    SelectSeq([i \in 1..Len(patternRows) |->
                  [marks |-> patternRows[i].marks, count |-> parseCount(patternRows[i].count)]],
              LAMBDA p : p.count >= 0 /\ p.marks > 0)

\* patternRows.map(...).filter((p) => p.count > 0 && p.marks > 0)
patternPayload ==
    SelectSeq([i \in 1..Len(patternRows) |->
                  [marks |-> patternRows[i].marks, count |-> parseCount(patternRows[i].count)]],
              LAMBDA p : p.count > 0 /\ p.marks > 0)

\* the texts a material may carry: none, the empty string, white space only,
\* extracted text
MockTexts == {Undefined, "", " ", "text1"}

\* apiData.text || apiData.summary || "": an empty or missing text falls
\* through to the summary, a white-space text does not
mockText(d) ==
    IF DocText(d) \notin {Undefined, ""} THEN DocText(d)
    ELSE IF d.summary # 0 THEN "summary" ELSE ""

\* text.trim() is not empty
hasMockText(d) == mockText(d) \notin {"", " "}

\* handleGenerate up to its await fetch(MOCK_TEST_URL, ...); the button is
\* disabled while loading
handleGenerate ==
    /\ ~mockLoading
    /\ apiData # NullData
    /\ hasMockText(apiData)
    /\ Len(patternPayload) # 0
    /\ mockLoading' = TRUE
    /\ mockError' = Null
    /\ mockReqs' = Append(mockReqs, [text |-> mockText(apiData),
                                      topic |-> IF Len(apiData.key_topics) > 0
                                                THEN apiData.key_topics[1] ELSE "",
                                      pattern |-> patternPayload])
    /\ lastEvent' = "none"
    /\ UNCHANGED <<patternRows, mockTest>>
    /\ UNCHANGED <<ctxVars, routerVars, quizVars, revVars, authVars, askVars, webVars>>

MockOutcomes == {"ok", "non2xx", "errorField", "throw"}
MockFailures == MockOutcomes \ {"ok"}

\* the mock test the backend generates for a request
MockTestResponse(r) == [pattern_used |-> r.pattern]

\* what handleGenerate reports when it fails
MockErrorText(outcome) ==
    CASE outcome = "non2xx" -> "Mock test API error"
      [] outcome = "errorField" -> "json.error"
      [] outcome = "throw" -> "Network request failed"

\* the event a completion of handleGenerate leaves in lastEvent
MockEvent(outcome) ==
    "handleGenerate:" \o outcome \o
        (IF outcome # "ok" /\ mockTest # NullData THEN ":discarded" ELSE "")

\* Mutant of handleGenerateResolve: the failure paths do not call setMockTest(null)
handleGenerateResolveKeepsTest(k, outcome) ==
    /\ k \in 1..Len(mockReqs)
    /\ mockReqs' = RemoveAt(mockReqs, k)
    /\ IF outcome = "ok"
       THEN /\ mockTest' = MockTestResponse(mockReqs[k])
            /\ UNCHANGED mockError
       ELSE /\ mockError' = MockErrorText(outcome)
            /\ UNCHANGED mockTest
    /\ mockLoading' = FALSE
    /\ lastEvent' = MockEvent(outcome)
    /\ UNCHANGED patternRows
    /\ UNCHANGED <<ctxVars, routerVars, quizVars, revVars, authVars, askVars, webVars>>

\* handleGenerate after its await: the response checks, the catch and finally
handleGenerateResolve(k, outcome) ==
    /\ k \in 1..Len(mockReqs)
    /\ mockReqs' = RemoveAt(mockReqs, k)
    /\ IF outcome = "ok"
       THEN /\ mockTest' = MockTestResponse(mockReqs[k])
            /\ UNCHANGED mockError
       ELSE /\ mockError' = MockErrorText(outcome)
            /\ mockTest' = NullData
    /\ mockLoading' = FALSE
    /\ lastEvent' = MockEvent(outcome)
    /\ UNCHANGED patternRows
    /\ UNCHANGED <<ctxVars, routerVars, quizVars, revVars, authVars, askVars, webVars>>

\* MockTestScreen mounted on a material the context holds
MockInit ==
    /\ user \in Users
    /\ fileInfo = "f1"
    /\ uploading = FALSE
    /\ \E topics \in {<<>>, <<"t1">>}, summary \in 0..1, text \in MockTexts :
          LET d == Material(summary, 1, topics, <<>>, <<>>, <<>>)
          IN apiData = IF text = Undefined THEN d ELSE WithText(d, text)
    /\ videoResults = <<>>
    /\ videoLoading = FALSE
    /\ videoError = Null
    /\ nav = <<"home", "mock-test">>
    /\ uploadReqs = <<>>
    /\ revisionReqs = <<>>
    /\ videoReqs = <<>>
    /\ getUserPending = FALSE
    /\ videoEffectDeps = <<>>
    /\ nextMaterial = 1
    /\ lastEvent = "none"
    /\ QuizIdle
    /\ RevisionIdle
    /\ AuthIdle
    /\ AskIdle
    /\ patternRows = DEFAULT_PATTERN
    /\ mockLoading = FALSE
    /\ mockError = Null
    /\ mockTest = NullData
    /\ mockReqs = <<>>
    /\ WebIdle

MockNext ==
    \/ \E index \in 1..MaxEditedRows, value \in TypedCounts : handleChangeCount(index, value)
    \/ handleGenerate
    \/ \E k \in 1..Len(mockReqs), outcome \in MockOutcomes : handleGenerateResolve(k, outcome)

SpecMock == MockInit /\ [][MockNext]_vars

MockGenerationFailed ==
    lastEvent \in {"handleGenerate:" \o o \o d : o \in MockFailures, d \in {"", ":discarded"}}

\* C17 as stated: the step in which a mock-test generation fails leaves the
\* mock test the screen held unchanged.
MockFailureKeepsTest ==
    [][(Len(mockReqs') < Len(mockReqs) /\ MockGenerationFailed') =>
          mockTest' = mockTest]_vars

\* C17 as amended: the step in which a mock-test generation fails (non-2xx
\* status, error field or thrown exception) discards the mock test the screen
\* held (mockTest becomes null), sets the error string and returns loading
\* to false; the pattern rows are left unchanged.
MockFailureDiscardsTest ==
    [][(Len(mockReqs') < Len(mockReqs) /\ MockGenerationFailed') =>
          /\ mockTest' = NullData
          /\ mockError' # Null
          /\ ~mockLoading'
          /\ patternRows' = patternRows]_vars

\* C17 witness: a generation has just failed on a screen that held a mock
\* test; the test is gone and the error is shown
MockFailureWitness ==
    /\ lastEvent = "handleGenerate:non2xx:discarded"
    /\ mockTest = NullData
    /\ mockError = "Mock test API error"
    /\ ~mockLoading

\* the rows of the screen whose count reads as a number above 0; a count is
\* a string of digits and the empty string reads 0
KeptRows == {i \in 1..Len(patternRows) : DecimalValue(patternRows[i].count) > 0}

StudyViews == {"summary", "flashcards", "quiz", "ask", "videos"}

\* the file input of the upload zone, shown while no file is selected
selectFile(f) ==
    /\ view = "dashboard"
    /\ file = Null
    /\ file' = f
    /\ lastEvent' = "none"
    /\ UNCHANGED <<view, webLoading, material, studyReqs>>
    /\ UNCHANGED <<ctxVars, routerVars, quizVars, revVars, authVars, askVars, mockVars>>

\* the remove button of the file preview: setFile(null)
removeFile ==
    /\ view = "dashboard"
    /\ file # Null
    /\ file' = Null
    /\ lastEvent' = "none"
    /\ UNCHANGED <<view, webLoading, material, studyReqs>>
    /\ UNCHANGED <<ctxVars, routerVars, quizVars, revVars, authVars, askVars, mockVars>>

\* generateStudyMaterial up to its await fetch(STUDY_URL, ...); the button is
\* rendered with a file selected and disabled while loading
generateStudyMaterial ==
    /\ view = "dashboard"
    /\ file # Null
    /\ ~webLoading
    /\ webLoading' = TRUE
    /\ studyReqs' = Append(studyReqs, [file |-> file, user_id |-> "u1"])
    /\ lastEvent' = "none"
    /\ UNCHANGED <<view, file, material>>
    /\ UNCHANGED <<ctxVars, routerVars, quizVars, revVars, authVars, askVars, mockVars>>

StudyOutcomes == {"ok", "non2xx", "nonJSON", "throw"}

\* the JSON of a successful study_material response
StudyResponses ==
    {Material(nextMaterial + 1, nextMaterial + 1, <<"t1">>, HomeQuiz, NoStats(HomeQuiz), <<>>)}

\* generateStudyMaterial after its await: res.json(), setMaterial, setView,
\* the catch and finally. The status of the response is not read: a non-2xx
\* response with a JSON body takes the same path as a 2xx one.
generateStudyMaterialResolve(k, outcome, json) ==
    /\ k \in 1..Len(studyReqs)
    /\ studyReqs' = RemoveAt(studyReqs, k)
    /\ CASE outcome = "ok" ->
              /\ nextMaterial < MaxMaterials
              /\ json \in StudyResponses
              /\ material' = json
              /\ view' = "summary"
              /\ nextMaterial' = nextMaterial + 1
         [] outcome = "non2xx" ->
              /\ json = ErrorBody
              /\ material' = json
              /\ view' = "summary"
              /\ UNCHANGED nextMaterial
         [] outcome \in {"nonJSON", "throw"} ->
              UNCHANGED <<material, view, nextMaterial>>
    /\ webLoading' = FALSE
    /\ lastEvent' = "generateStudyMaterial:" \o outcome
    /\ UNCHANGED file
    /\ UNCHANGED ctxVars
    /\ UNCHANGED <<nav, uploadReqs, revisionReqs, videoReqs, getUserPending, videoEffectDeps>>
    /\ UNCHANGED <<quizVars, revVars, authVars, askVars, mockVars>>

\* a quick action of the dashboard: setView(v)
setView(v) ==
    /\ view = "dashboard"
    /\ view' = v
    /\ lastEvent' = "none"
    /\ UNCHANGED <<file, webLoading, material, studyReqs>>
    /\ UNCHANGED <<ctxVars, routerVars, quizVars, revVars, authVars, askVars, mockVars>>

\* the Back to Dashboard button of a study view
backToDashboard ==
    /\ view # "dashboard"
    /\ view' = "dashboard"
    /\ lastEvent' = "none"
    /\ UNCHANGED <<file, webLoading, material, studyReqs>>
    /\ UNCHANGED <<ctxVars, routerVars, quizVars, revVars, authVars, askVars, mockVars>>

\* StudyUI mounted for a signed-in user
WebInit ==
    /\ ContextInit
    /\ nav = <<>>
    /\ uploadReqs = <<>>
    /\ revisionReqs = <<>>
    /\ videoReqs = <<>>
    /\ getUserPending = FALSE
    /\ videoEffectDeps = <<>>
    /\ nextMaterial = 0
    /\ lastEvent = "none"
    /\ QuizIdle
    /\ RevisionIdle
    /\ ElsewhereIdle

WebNext ==
    \/ \E f \in Files : selectFile(f)
    \/ removeFile
    \/ generateStudyMaterial
    \/ \E k \in 1..Len(studyReqs), outcome \in StudyOutcomes :
          \E json \in (IF outcome = "ok" THEN StudyResponses
                        ELSE IF outcome = "non2xx" THEN {ErrorBody} ELSE {NullData}) :
             generateStudyMaterialResolve(k, outcome, json)
    \/ \E v \in StudyViews : setView(v)
    \/ backToDashboard

SpecWeb == WebInit /\ [][WebNext]_vars

\* C18: in the web StudyUI the step that completes a study_material request
\* with a non-2xx response leaves the held material as it was, does not
\* change the view and returns loading to false, as a transport error does.
WebNon2xxKeepsState ==
    [][(Len(studyReqs') < Len(studyReqs) /\ lastEvent' = "generateStudyMaterial:non2xx") =>
          /\ material' = material
          /\ view' = view
          /\ ~webLoading']_vars

\* C19: in the web StudyUI the step that removes the selected file leaves
\* the generated material null.
WebRemoveFileClearsMaterial ==
    [][(file # Null /\ file' = Null) => material' = NullData]_vars

\* ------------------------------------------------------------------------
\* QuizScreen: the revision highlight of a question card
\* ------------------------------------------------------------------------
\* needsRevision of the quiz screen for statsForQ (NullData: no entry); a
\* missing counter is not a number
quizNeedsRevision(statsForQ) ==
    /\ statsForQ # NullData
    /\ statsForQ.attempts # <<>>
    /\ statsForQ.correct # <<>>
    /\ statsForQ.correct[1] = 0
    /\ statsForQ.attempts[1] >= 3

\* The render of QuizScreen: the cards that get revisionTagHighlight
QuizScreenRender ==
    /\ apiData # NullData
    /\ Len(Quiz(apiData)) > 0
    /\ highlighted' = << {i \in 1..Len(Quiz(apiData)) :
                            quizNeedsRevision(apiData.per_question[i])} >>
    /\ UNCHANGED <<keywordSections, otherVideos, vidRendered>>
    /\ UNCHANGED <<revisionIndices, rvRendered, revLocalVars>>
    /\ UNCHANGED <<ctxVars, homeVars, quizVars, elsewhereVars>>

HighlightNext ==
    \/ RevisionQuizRender
    \/ QuizScreenRender

\* the quiz screen and the revision-quiz screen rendering the same material
SpecHighlight == RevisionInit /\ [][HighlightNext]_vars

\* C21: a question of the quiz screen has the revision highlight iff its
\* counters satisfy (attempts >= 1 and correct = 0) or (attempts >= 3 and
\* correct/attempts < 0.5), and once both screens have rendered the same
\* material the highlighted questions are those of the revision list.
QuizHighlightMatchesPredicate ==
    highlighted # <<>> =>
        \A i \in 1..Len(apiData.quiz) :
            LET st == apiData.per_question[i]
                a == IF st = NullData \/ st.attempts = <<>> THEN 0 ELSE st.attempts[1]
                c == IF st = NullData \/ st.correct = <<>> THEN 0 ELSE st.correct[1]
            IN /\ i \in highlighted[1] <=>
                     /\ st # NullData
                     /\ \/ (a >= 1 /\ c = 0)
                        \/ (a >= 3 /\ 2 * c < a)
               /\ rvRendered => (i \in highlighted[1] <=> InSeq(i, revisionIndices))

\* ------------------------------------------------------------------------
\* RevisionQuizScreen: selection and submit
\* ------------------------------------------------------------------------
\* revisionIndices.reduce(...) of selectOption: userAns && userAns === q.answer
RECURSIVE ReduceRevisionScore(_, _, _, _)
ReduceRevisionScore(indices, allQuiz, newAnswers, n) ==
    IF n = 0 THEN 0
    ELSE LET acc == ReduceRevisionScore(indices, allQuiz, newAnswers, n - 1)
             userAns == newAnswers[indices[n]]
             q == allQuiz[indices[n]]
         IN IF userAns # Undefined /\ userAns = q.answer THEN acc + 1 ELSE acc

\* the reduce without the userAns && guard
RECURSIVE ReduceRevisionScoreUnguarded(_, _, _, _)
ReduceRevisionScoreUnguarded(indices, allQuiz, newAnswers, n) ==
    IF n = 0 THEN 0
    ELSE LET acc == ReduceRevisionScoreUnguarded(indices, allQuiz, newAnswers, n - 1)
         IN IF newAnswers[indices[n]] = allQuiz[indices[n]].answer THEN acc + 1 ELSE acc

\* Mutant of revisionScore: the comparison lacks the userAns && guard
revisionScoreUnguarded(indices, allQuiz, newAnswers) ==
    ReduceRevisionScoreUnguarded(indices, allQuiz, newAnswers, Len(indices))

\* the reduce as selectOption calls it
revisionScore(indices, allQuiz, newAnswers) ==
    ReduceRevisionScore(indices, allQuiz, newAnswers, Len(indices))

\* selectOption of the revision-quiz screen
revisionSelectOption(revisionIdx, opt) ==
    /\ Top(nav) = "revision-quiz"
    /\ apiData # NullData
    /\ revisionIdx \in 1..Len(revisionIndices)
    /\ LET originalIdx == revisionIndices[revisionIdx]
           newAnswers == [rvAnswers EXCEPT ![originalIdx] = opt]
       IN /\ opt \in {Quiz(apiData)[originalIdx].options[k] :
                          k \in 1..Len(Quiz(apiData)[originalIdx].options)}
          /\ rvAnswers' = newAnswers
          /\ rvScore' = revisionScore(revisionIndices, Quiz(apiData), newAnswers)
    /\ UNCHANGED <<rvSaving, rvSyncError, rvLastSavedScore, rvSyncReqs>>
    /\ UNCHANGED <<revisionIndices, rvRendered, renderVars>>
    /\ UNCHANGED <<ctxVars, homeVars, quizVars, elsewhereVars>>

\* the Submit button is disabled while saving
submitDisabled == rvSaving

\* submitPerformance up to its await fetch(QUIZ_PERFORMANCE_URL, ...)
submitPerformance ==
    /\ Top(nav) = "revision-quiz"
    /\ ~submitDisabled
    /\ apiData # NullData
    /\ ~(user = Null \/ materialId = NoMaterialId)
    /\ NumKeys(rvAnswers) # 0
    /\ rvSaving' = TRUE
    /\ rvSyncError' = Null
    /\ rvSyncReqs' = Append(rvSyncReqs, [user_id |-> user, material_id |-> materialId,
                                          answers |-> rvAnswers, score |-> rvScore])
    /\ UNCHANGED <<rvAnswers, rvScore, rvLastSavedScore>>
    /\ UNCHANGED <<revisionIndices, rvRendered, renderVars>>
    /\ UNCHANGED <<ctxVars, homeVars, quizVars, elsewhereVars>>

SubmitOutcomes == {"ok", "failed", "throw"}

\* submitPerformance after its await: the response check, the catch and finally
submitPerformanceResolve(k, outcome) ==
    /\ k \in 1..Len(rvSyncReqs)
    /\ rvSyncReqs' = RemoveAt(rvSyncReqs, k)
    /\ CASE outcome = "ok" ->
              /\ rvLastSavedScore' = rvSyncReqs[k].score
              /\ UNCHANGED rvSyncError
         [] outcome = "failed" ->
              /\ rvSyncError' = "Submit failed"
              /\ UNCHANGED rvLastSavedScore
         [] outcome = "throw" ->
              /\ rvSyncError' = "Submit error"
              /\ UNCHANGED rvLastSavedScore
    /\ rvSaving' = FALSE
    /\ UNCHANGED <<rvAnswers, rvScore>>
    /\ UNCHANGED <<revisionIndices, rvRendered, renderVars>>
    /\ UNCHANGED <<ctxVars, homeVars, quizVars, elsewhereVars>>

\* stats of a question that is in the revision list, or no entry
RevQuizStats == {NullData, [attempts |-> <<1>>, correct |-> <<0>>]}

\* RevisionQuizScreen mounted and rendered with a non-empty revision list
RevQuizInit ==
    /\ user \in Users \cup {Null}
    /\ fileInfo = "f1"
    /\ uploading = FALSE
    /\ \E quiz \in SeqsUpTo(Question, MaxRevQuizLen) \ {<<>>}, mid \in {NoMaterialId, 1} :
          \E pq \in [1..Len(quiz) -> RevQuizStats] :
             /\ apiData = Material(1, mid, <<"t1">>, quiz, pq, <<>>)
             /\ revisionIndices = BuildRevisionIndices(pq, Len(quiz), Len(quiz))
             /\ rvAnswers = [i \in 1..Len(quiz) |-> Undefined]
    /\ Len(revisionIndices) # 0
    /\ rvRendered = TRUE
    /\ rvScore = 0
    /\ rvSaving = FALSE
    /\ rvSyncError = Null
    /\ rvLastSavedScore = NoScore
    /\ rvSyncReqs = <<>>
    /\ RenderIdle
    /\ videoResults = <<>>
    /\ videoLoading = FALSE
    /\ videoError = Null
    /\ nav = <<"home", "revision-quiz">>
    /\ uploadReqs = <<>>
    /\ revisionReqs = <<>>
    /\ videoReqs = <<>>
    /\ getUserPending = FALSE
    /\ videoEffectDeps = <<>>
    /\ nextMaterial = 1
    /\ lastEvent = "none"
    /\ QuizIdle
    /\ ElsewhereIdle

RevQuizNext ==
    \/ \E revisionIdx \in 1..MaxRevQuizLen, opt \in Options :
          revisionSelectOption(revisionIdx, opt)
    \/ submitPerformance
    \/ \E k \in 1..Len(rvSyncReqs), outcome \in SubmitOutcomes :
          submitPerformanceResolve(k, outcome)

SpecRevQuiz == RevQuizInit /\ [][RevQuizNext]_vars

\* C22: on the revision-quiz screen the revision score is the number of
\* revision questions whose stored selection equals the answer of the
\* original question, and it lies between 0 and the number of revision
\* questions.
RevisionScoreIsCount ==
    LET matches == {k \in 1..Len(revisionIndices) :
                       /\ rvAnswers[revisionIndices[k]] # Undefined
                       /\ rvAnswers[revisionIndices[k]] =
                             apiData.quiz[revisionIndices[k]].answer}
    IN /\ rvScore = Cardinality(matches)
       /\ rvScore >= 0
       /\ rvScore <= Len(revisionIndices)

\* C22 witness: of two revision questions, one without answer field, the
\* other is answered correctly; the score is 1
RevisionScoreWitness ==
    /\ revisionIndices = <<1, 2>>
    /\ apiData.quiz[1].answer = Undefined
    /\ apiData.quiz[2].answer = "B"
    /\ rvAnswers = <<Undefined, "B">>
    /\ rvScore = 1

\* ------------------------------------------------------------------------
\* quiz_performance requests of the quiz and the revision-quiz screen
\* ------------------------------------------------------------------------
\* The back button on the quiz screen: the QuizScreen unmounts, its state is
\* discarded and its calls in flight become orphans
leaveQuiz ==
    /\ Top(nav) = "quiz"
    /\ nav' = SubSeq(nav, 1, Len(nav) - 1)
    /\ answers' = <<>>
    /\ score' = 0
    /\ saving' = FALSE
    /\ syncError' = Null
    /\ lastSavedScore' = NoScore
    /\ syncReqs' = [k \in 1..Len(syncReqs) |-> [syncReqs[k] EXCEPT !.orphan = TRUE]]
    /\ lastEvent' = "none"
    /\ UNCHANGED ctxVars
    /\ UNCHANGED <<uploadReqs, revisionReqs, videoReqs, getUserPending, videoEffectDeps, nextMaterial>>
    /\ UNCHANGED <<revVars, elsewhereVars>>

\* The Quiz card of the home screen: router.push("/quiz"); a new QuizScreen
\* mounts with its initial state
openQuiz ==
    /\ Top(nav) = "home"
    /\ apiData # NullData
    /\ Len(syncReqs) <= MaxOrphans
    /\ nav' = Append(nav, "quiz")
    /\ answers' = [i \in 1..Len(Quiz(apiData)) |-> Undefined]
    /\ lastEvent' = "none"
    /\ UNCHANGED <<score, saving, syncError, lastSavedScore, syncReqs>>
    /\ UNCHANGED ctxVars
    /\ UNCHANGED <<uploadReqs, revisionReqs, videoReqs, getUserPending, videoEffectDeps, nextMaterial>>
    /\ UNCHANGED <<revVars, elsewhereVars>>

PerformanceInit == QuizInit \/ RevQuizInit

PerformanceNext ==
    \/ QuizNext
    \/ RevQuizNext
    \/ leaveQuiz
    \/ openQuiz

\* either of the two screens that submit to quiz_performance, mounted
SpecPerformance == PerformanceInit /\ [][PerformanceNext]_vars

\* C23: a step that issues a quiz_performance request, from the quiz screen
\* or from the revision-quiz screen, starts in a state where the user id and
\* the material id are present, at least one answer is selected on that
\* screen and no earlier submit of that screen is outstanding.
PerformanceRequestPreconditions ==
    [][/\ Len(syncReqs') > Len(syncReqs) =>
             /\ user # Null
             /\ materialId # NoMaterialId
             /\ NumKeys(answers) > 0
             /\ syncReqs = <<>>
       /\ Len(rvSyncReqs') > Len(rvSyncReqs) =>
             /\ user # Null
             /\ materialId # NoMaterialId
             /\ NumKeys(rvAnswers) > 0
             /\ rvSyncReqs = <<>>]_vars


\* ------------------------------------------------------------------------
\* VideosScreen (app/videos.tsx): the grouping of the videos by key topic
\* ------------------------------------------------------------------------
MaxTopics == 2
MaxVideos == 2

Topics == {"t1", "t2"}

\* a video of the recommend_videos response; matched_keyword is null when
\* the backend matched no topic
Video == [videoId : 1..MaxVideos, matched_keyword : Topics \cup {Null}]

\* videoResults.find((v) => v.matched_keyword === kw): <<v>> for the first
\* match, <<>> for undefined
RECURSIVE find(_, _)
find(results, kw) ==
    IF results = <<>> THEN <<>>
    ELSE IF Head(results).matched_keyword = kw THEN <<Head(results)>>
    ELSE find(Tail(results), kw)

\* apiData.key_topics?.slice(0, 8) ?? []
keywordOrder ==
    SubSeq(apiData.key_topics, 1, IF Len(apiData.key_topics) < 8
                                  THEN Len(apiData.key_topics) ELSE 8)

\* The render of VideosScreen on a material: the topic sections and the
\* "More helpful videos" list
VideosRender ==
    /\ Top(nav) = "videos"
    /\ apiData # NullData
    /\ ~vidRendered
    /\ keywordSections' = [k \in 1..Len(keywordOrder) |->
                              [keyword |-> keywordOrder[k],
                               video |-> find(videoResults, keywordOrder[k])]]
    /\ otherVideos' = SelectSeq(videoResults, LAMBDA v : v.matched_keyword = Null)
    /\ vidRendered' = TRUE
    /\ UNCHANGED highlighted
    /\ UNCHANGED <<revisionIndices, rvRendered, revLocalVars>>
    /\ UNCHANGED <<ctxVars, homeVars, quizVars, elsewhereVars>>

\* VideosScreen mounted on a material and a list of videos (distinct videos)
\* the context holds
VideosInit ==
    /\ user \in Users
    /\ fileInfo = "f1"
    /\ uploading = FALSE
    /\ \E topics \in SeqsUpTo(Topics, MaxTopics) :
          apiData = Material(1, 1, topics, <<>>, <<>>, <<>>)
    /\ videoResults \in {vs \in SeqsUpTo(Video, MaxVideos) :
                            \A a, b \in 1..Len(vs) : vs[a].videoId = vs[b].videoId => a = b}
    /\ videoLoading = FALSE
    /\ videoError \in {Null, "exception"}
    /\ nav = <<"home", "videos">>
    /\ uploadReqs = <<>>
    /\ revisionReqs = <<>>
    /\ videoReqs = <<>>
    /\ getUserPending = FALSE
    /\ videoEffectDeps = <<>>
    /\ nextMaterial = 1
    /\ lastEvent = "none"
    /\ QuizIdle
    /\ RevisionIdle
    /\ ElsewhereIdle

VideosNext == VideosRender

SpecVideos == VideosInit /\ [][VideosNext]_vars

\* the number of places the screen shows a video in: topic sections that
\* carry it plus entries of the "More helpful videos" list
Places(v) ==
    Cardinality({k \in 1..Len(keywordSections) : keywordSections[k].video = <<v>>})
        + Cardinality({j \in 1..Len(otherVideos) : otherVideos[j] = v})

\* C30: once the Videos screen has rendered its lists (no error, not
\* loading), every video of videoResults is shown in exactly one place: under
\* a key topic or in the "More helpful videos" list.
EveryVideoShownOnce ==
    (vidRendered /\ ~videoLoading /\ videoError = Null) =>
        \A n \in 1..Len(videoResults) : Places(videoResults[n]) = 1

====
